---- MODULE Spec2Model ----
(***************************************************************************)
(* Model of kodegen-utils: the fuzzy locator of src/fuzzy_search.rs        *)
(* (levenshtein_distance, safe_substring, iterative_reduction,             *)
(* recursive_fuzzy_index_of), the boundary finders of char_analysis.rs and *)
(* char_diff.rs, the analysis cache, normalize_line_endings, and the       *)
(* background processors of edit_log.rs and usage_tracker.rs.              *)
(*                                                                         *)
(* A Rust &str is modelled as the sequence of its chars (code points).     *)
(* Its storage is UTF-8: str::len() and the slice &text[a..b] count bytes, *)
(* so the byte width of every char is kept (len_utf8) and a slice whose    *)
(* offset is not a char boundary panics.                                   *)
(***************************************************************************)
EXTENDS Integers, Sequences, FiniteSets, TLC

VARIABLES text, query, pc, depth, start, end, parent_distance,
          best_distance, best_start, best_end, next_distance, result,
          a, b, c, lev_pc, lev_out,
          sim_pc, sim_out,
          expected, actual, fcb_pc, boundaries, cd_pc, char_diff,
          le_text, le_target, le_pc, normalized,
          cache, an_expected, an_actual, an_pc, an_result, calls,
          sender_alive, channel, pending_entries, writer, log_file, log_pc,
          recv_disabled, logged,
          tracker_alive, update_channel, stats, has_pending_writes, stats_file,
          usage_pc, update_recv_disabled, sent, loaded, sent_at_load

locVars == <<text, query, pc, depth, start, end, parent_distance,
             best_distance, best_start, best_end, next_distance, result>>
levVars == <<a, b, c, lev_pc, lev_out>>
simVars == <<sim_pc, sim_out>>
diffVars == <<expected, actual, fcb_pc, boundaries, cd_pc, char_diff>>
leVars == <<le_text, le_target, le_pc, normalized>>
cacheVars == <<cache, an_expected, an_actual, an_pc, an_result, calls>>
logVars == <<sender_alive, channel, pending_entries, writer, log_file, log_pc,
             recv_disabled, logged>>
usageVars == <<tracker_alive, update_channel, stats, has_pending_writes, stats_file,
               usage_pc, update_recv_disabled, sent, loaded, sent_at_load>>
extVars == <<leVars, cacheVars, logVars, usageVars>>
coreVars == <<locVars, levVars, simVars, diffVars>>
vars == <<coreVars, extVars>>

(***************************************************************************)
(* Bounds of the model.                                                    *)
(***************************************************************************)
MaxTextLen == 5
MaxQueryLen == 2
MaxLevLen == 3
MaxDiffLen == 3

\* 'a', 'b' (one byte each) and U+00E9 (two bytes in UTF-8)
Alphabet == {97, 98, 233}
\* the operands of the distance specification: 'a' and U+00E9
LevAlphabet == {97, 233}

StrUpTo(alphabet, n) == UNION {[1..k -> alphabet] : k \in 0..n}

(***************************************************************************)
(* Strings: chars, UTF-8 widths, byte offsets.                             *)
(***************************************************************************)
Min(x, y) == IF x <= y THEN x ELSE y
Max(x, y) == IF x >= y THEN x ELSE y
saturating_sub(x, y) == IF x >= y THEN x - y ELSE 0

\* char::len_utf8
len_utf8(ch) == IF ch < 128 THEN 1
                ELSE IF ch < 2048 THEN 2
                ELSE IF ch < 65536 THEN 3 ELSE 4

\* str::len(): the length in bytes
RECURSIVE str_len(_)
str_len(s) == IF s = <<>> THEN 0 ELSE len_utf8(Head(s)) + str_len(Tail(s))

\* str::chars().count(): the length in scalar values
chars_count(s) == Len(s)

\* str::is_char_boundary for an offset within 0..str_len(s)
is_char_boundary(s, i) == \E k \in 0..Len(s) : str_len(SubSeq(s, 1, k)) = i

\* the number of chars that end at or before byte offset i
chars_before(s, i) == CHOOSE k \in 0..Len(s) : str_len(SubSeq(s, 1, k)) = i

\* &s[lo..hi] for lo <= hi <= str_len(s), both char boundaries
str_slice(s, lo, hi) == SubSeq(s, chars_before(s, lo) + 1, chars_before(s, hi))

\* safe_substring: the offsets after the swap and the clamp
safe_range(s, from, to) ==
    LET lo == IF from > to THEN to ELSE from
        hi == IF from > to THEN from ELSE to
    IN <<Min(lo, str_len(s)), Min(hi, str_len(s))>>

\* safe_substring reaches &text[start..end] with an offset inside a char
safe_substring_panics(s, from, to) ==
    LET r == safe_range(s, from, to)
    IN r[1] < r[2] /\ ~(is_char_boundary(s, r[1]) /\ is_char_boundary(s, r[2]))

safe_substring(s, from, to) ==
    LET r == safe_range(s, from, to)
    IN IF r[1] >= r[2] THEN <<>> ELSE str_slice(s, r[1], r[2])

(***************************************************************************)
(* levenshtein_distance: the full (a_len+1) x (b_len+1) matrix, filled row *)
(* by row.  A row is a sequence; matrix[i][j] is kept at index j+1.        *)
(***************************************************************************)
\* the early returns taken with the storage length of the operand
lev_empty_in_bytes(a_chars, b_chars) ==
    IF Len(a_chars) = 0 THEN str_len(b_chars) ELSE str_len(a_chars)

\* the early returns for an empty operand
lev_empty(a_chars, b_chars) ==
    IF Len(a_chars) = 0 THEN Len(b_chars) ELSE Len(a_chars)

\* the first row left at its initial 0.0
first_row_zeroed(b_len) == [j \in 1..(b_len + 1) |-> 0]

\* matrix[0][j] = j
first_row(b_len) == [j \in 1..(b_len + 1) |-> j - 1]

\* the fill loop without the insertion term
fill_cell_no_insertion(up, left, diag, a_ch, b_ch) ==
    LET cost == IF a_ch = b_ch THEN 0 ELSE 1
    IN Min(up + 1, diag + cost)

\* the fill loop with the substitution cost inverted
fill_cell_inverted_cost(up, left, diag, a_ch, b_ch) ==
    LET cost == IF a_ch = b_ch THEN 1 ELSE 0
    IN Min(Min(up + 1, left + 1), diag + cost)

\* one cell of the fill loop
fill_cell(up, left, diag, a_ch, b_ch) ==
    LET cost == IF a_ch = b_ch THEN 0 ELSE 1
    IN Min(Min(up + 1, left + 1), diag + cost)

RECURSIVE fill_row(_, _, _, _)
fill_row(prev, a_ch, b_chars, row) ==
    IF Len(row) = Len(b_chars) + 1 THEN row
    ELSE LET j == Len(row)
         IN fill_row(prev, a_ch, b_chars,
                     Append(row, fill_cell(prev[j + 1], row[j], prev[j], a_ch, b_chars[j])))

RECURSIVE fill_matrix(_, _, _, _)
fill_matrix(a_chars, b_chars, i, prev) ==
    IF i > Len(a_chars) THEN prev
    ELSE fill_matrix(a_chars, b_chars, i + 1,
                     fill_row(prev, a_chars[i], b_chars, <<i>>))

levenshtein_distance(x, y) ==
    IF Len(x) = 0 \/ Len(y) = 0 THEN lev_empty(x, y)
    ELSE fill_matrix(x, y, 1, first_row(Len(y)))[Len(y) + 1]

(***************************************************************************)
(* The locator.  f64::INFINITY is a value above every distance.            *)
(***************************************************************************)
INFINITY == 1000000
\* Option<usize>::None for the end argument
NONE == -1

NoResult == [start |-> 0, end |-> 0, value |-> <<>>, distance |-> 0]

\* the comparison of line 206 against 0.0: never true
abs_diff_lt_zero(x, y) == FALSE

\* (x - y).abs() < f64::EPSILON on integral values; inf - inf is NaN
abs_diff_lt_epsilon(x, y) == x = y /\ x # INFINITY

\* end.unwrap_or(text.len())
unwrap_end == IF end = NONE THEN str_len(text) ELSE end

mid_point(s, e) == s + (e - s) \div 2
\* the left window ended where the right one starts: the overlap subtracted
left_end_before_mid(s, e, q_len) == Min(e, saturating_sub(mid_point(s, e), q_len))

left_end(s, e, q_len) == Min(e, mid_point(s, e) + q_len)
right_start(s, e, q_len) == Max(s, saturating_sub(mid_point(s, e), q_len))

NoLevOut == [ab |-> 0, ba |-> 0, ac |-> 0, cb |-> 0]

\* line 202 with the farther half taken in place of the closest value
best_of_farther_half(left_distance, parent, right_distance) ==
    Max(left_distance, right_distance)

\* line 202: left_distance.min(parent_distance.min(right_distance))
best_of(left_distance, parent, right_distance) ==
    Min(left_distance, Min(parent, right_distance))

\* the comparison of line 211 turned around
recurse_left_flipped(left_distance, right_distance) == left_distance > right_distance

\* line 211: the left half is searched when it is strictly closer
recurse_left(left_distance, right_distance) == left_distance < right_distance

\* the loop conditions with a margin of one edit
improves_by_two(next, best) == next + 1 < best

\* lines 128 and 140: next_distance < best_distance
improves(next, best) == next < best

\* a ratio 1.0 - distance / max_length is kept exact, as num / den
NoRatio == [num |-> 0, den |-> 1]

SimIdle == sim_pc = "idle" /\ sim_out = NoRatio

NoBoundaries == <<0, 0>>

NoCharDiff == [common_prefix |-> <<>>, expected_part |-> <<>>,
               actual_part |-> <<>>, common_suffix |-> <<>>]

DiffIdle ==
    /\ expected = <<>>
    /\ actual = <<>>
    /\ fcb_pc = "idle"
    /\ boundaries = NoBoundaries
    /\ cd_pc = "idle"
    /\ char_diff = NoCharDiff

LeIdle == le_text = <<>> /\ le_target = "Lf" /\ le_pc = "idle" /\ normalized = <<>>

NoAnalysis == [unique_count |-> 0, diff_length |-> 0,
               distribution |-> [only_in_expected |-> {}, only_in_actual |-> {},
                                 in_both |-> {}]]

CacheIdle ==
    /\ cache = <<>>
    /\ an_expected = <<>>
    /\ an_actual = <<>>
    /\ an_pc = "idle"
    /\ an_result = NoAnalysis
    /\ calls = 0

LogIdle ==
    /\ sender_alive = FALSE
    /\ channel = <<>>
    /\ pending_entries = <<>>
    /\ writer = FALSE
    /\ log_file = <<>>
    /\ log_pc = "idle"
    /\ recv_disabled = FALSE
    /\ logged = 0

\* UsageStats::default(), without the two timestamps
DefaultStats ==
    [filesystem_operations |-> 0, terminal_operations |-> 0, edit_operations |-> 0,
     search_operations |-> 0, config_operations |-> 0, process_operations |-> 0,
     total_tool_calls |-> 0, successful_calls |-> 0, failed_calls |-> 0,
     tool_counts |-> [t \in {} |-> 0], total_sessions |-> 1]

\* no stats file on disk
NoFile == [absent |-> TRUE]

UsageIdle ==
    /\ tracker_alive = FALSE
    /\ update_channel = <<>>
    /\ stats = DefaultStats
    /\ has_pending_writes = FALSE
    /\ stats_file = NoFile
    /\ usage_pc = "idle"
    /\ update_recv_disabled = FALSE
    /\ sent = <<>>
    /\ loaded = DefaultStats
    /\ sent_at_load = 0

ExtIdle == LeIdle /\ CacheIdle /\ LogIdle /\ UsageIdle

LevIdle == a = <<>> /\ b = <<>> /\ c = <<>> /\ lev_pc = "idle" /\ lev_out = NoLevOut

\* recursive_fuzzy_index_of_with_defaults(text, query)
Init ==
    /\ text \in StrUpTo(Alphabet, MaxTextLen)
    /\ query \in StrUpTo(Alphabet, MaxQueryLen)
    /\ pc = "recurse"
    /\ depth = 0
    /\ start = 0
    /\ end = NONE
    /\ parent_distance = INFINITY
    /\ best_distance = 0
    /\ best_start = 0
    /\ best_end = 0
    /\ next_distance = 0
    /\ result = NoResult
    /\ LevIdle
    /\ SimIdle
    /\ DiffIdle
    /\ ExtIdle

\* One invocation of recursive_fuzzy_index_of, up to its tail call; depth
\* counts the recursive calls made so far.
RecursiveFuzzyIndexOf ==
    /\ pc = "recurse"
    /\ LET e == unwrap_end
           q_len == str_len(query)
           le == left_end(start, e, q_len)
           rs == right_start(start, e, q_len)
       IN IF saturating_sub(e, start) <= 2 * q_len
          THEN /\ pc' = "reduce"
               /\ end' = e
               /\ UNCHANGED <<depth, start, parent_distance>>
          ELSE IF safe_substring_panics(text, start, le)
                  \/ safe_substring_panics(text, rs, e)
          THEN /\ pc' = "panic"
               /\ end' = e
               /\ UNCHANGED <<depth, start, parent_distance>>
          ELSE LET left_distance == levenshtein_distance(safe_substring(text, start, le), query)
                   right_distance == levenshtein_distance(safe_substring(text, rs, e), query)
                   best == best_of(left_distance, parent_distance, right_distance)
               IN IF abs_diff_lt_epsilon(parent_distance, best)
                  THEN /\ pc' = "reduce"
                       /\ end' = e
                       /\ UNCHANGED <<depth, start, parent_distance>>
                  ELSE IF recurse_left(left_distance, right_distance)
                  THEN /\ pc' = "recurse"
                       /\ depth' = depth + 1
                       /\ start' = start
                       /\ end' = le
                       /\ parent_distance' = best
                  ELSE /\ pc' = "recurse"
                       /\ depth' = depth + 1
                       /\ start' = rs
                       /\ end' = e
                       /\ parent_distance' = best
    /\ UNCHANGED <<text, query, best_distance, best_start, best_end, next_distance, result>>
    /\ UNCHANGED <<levVars, simVars, diffVars>>
    /\ UNCHANGED extVars

\* iterative_reduction, lines 120-126: the locals and the first candidate
IterativeReductionEnter ==
    /\ pc = "reduce"
    /\ best_distance' = parent_distance
    /\ best_start' = start
    /\ best_end' = end
    /\ IF safe_substring_panics(text, start + 1, end)
       THEN pc' = "panic" /\ UNCHANGED next_distance
       ELSE /\ pc' = "improve_start"
            /\ next_distance' = levenshtein_distance(safe_substring(text, start + 1, end), query)
    /\ UNCHANGED <<text, query, depth, start, end, parent_distance, result>>
    /\ UNCHANGED <<levVars, simVars, diffVars>>
    /\ UNCHANGED extVars

\* one iteration of the loop of lines 128-134
ImproveStartStep ==
    /\ pc = "improve_start"
    /\ improves(next_distance, best_distance)
    /\ best_distance' = next_distance
    /\ best_start' = best_start + 1
    /\ IF safe_substring_panics(text, best_start + 2, best_end)
       THEN pc' = "panic" /\ UNCHANGED next_distance
       ELSE /\ pc' = "improve_start"
            /\ next_distance' = levenshtein_distance(safe_substring(text, best_start + 2, best_end), query)
    /\ UNCHANGED <<text, query, depth, start, end, parent_distance, best_end, result>>
    /\ UNCHANGED <<levVars, simVars, diffVars>>
    /\ UNCHANGED extVars

\* the loop of lines 128-134 ends; lines 137-138 take the first end candidate
ImproveStartExit ==
    /\ pc = "improve_start"
    /\ ~improves(next_distance, best_distance)
    /\ IF safe_substring_panics(text, best_start, saturating_sub(best_end, 1))
       THEN pc' = "panic" /\ UNCHANGED next_distance
       ELSE /\ pc' = "improve_end"
            /\ next_distance' = levenshtein_distance(
                   safe_substring(text, best_start, saturating_sub(best_end, 1)), query)
    /\ UNCHANGED <<text, query, depth, start, end, parent_distance,
                   best_distance, best_start, best_end, result>>
    /\ UNCHANGED <<levVars, simVars, diffVars>>
    /\ UNCHANGED extVars

\* one iteration of the loop of lines 140-146
ImproveEndStep ==
    /\ pc = "improve_end"
    /\ improves(next_distance, best_distance)
    /\ best_distance' = next_distance
    /\ best_end' = saturating_sub(best_end, 1)
    /\ LET e1 == saturating_sub(best_end, 1)
       IN IF safe_substring_panics(text, best_start, saturating_sub(e1, 1))
          THEN pc' = "panic" /\ UNCHANGED next_distance
          ELSE /\ pc' = "improve_end"
               /\ next_distance' = levenshtein_distance(
                      safe_substring(text, best_start, saturating_sub(e1, 1)), query)
    /\ UNCHANGED <<text, query, depth, start, end, parent_distance, best_start, result>>
    /\ UNCHANGED <<levVars, simVars, diffVars>>
    /\ UNCHANGED extVars

\* the loop of lines 140-146 ends; lines 148-153 build the result
ImproveEndExit ==
    /\ pc = "improve_end"
    /\ ~improves(next_distance, best_distance)
    /\ IF safe_substring_panics(text, best_start, best_end)
       THEN pc' = "panic" /\ UNCHANGED result
       ELSE /\ pc' = "done"
            /\ result' = [start |-> best_start,
                          end |-> best_end,
                          value |-> safe_substring(text, best_start, best_end),
                          distance |-> best_distance]
    /\ UNCHANGED <<text, query, depth, start, end, parent_distance,
                   best_distance, best_start, best_end, next_distance>>
    /\ UNCHANGED <<levVars, simVars, diffVars>>
    /\ UNCHANGED extVars

Next ==
    \/ RecursiveFuzzyIndexOf
    \/ IterativeReductionEnter
    \/ ImproveStartStep
    \/ ImproveStartExit
    \/ ImproveEndStep
    \/ ImproveEndExit

Spec == Init /\ [][Next]_vars

\* query occurs verbatim in txt, as a contiguous run of chars
Occurs(q, txt) ==
    \E i \in 0..(Len(txt) - Len(q)) : SubSeq(txt, i + 1, i + Len(q)) = q

\* C1: when query occurs verbatim in text, the returned match is the query
\* itself at distance 0.
C1_VerbatimQueryFound ==
    (pc = "done" /\ Occurs(query, text)) =>
        (result.distance = 0 /\ result.value = query)

\* C2: every returned result has start <= end, end <= len(text) in scalar
\* units, and distance >= 0.
C2_ResultWellFormed ==
    pc = "done" =>
        /\ result.start <= result.end
        /\ result.end <= chars_count(text)
        /\ result.distance >= 0

\* C3: no slicing step cuts the text inside a char, so the slicing panic is
\* unreachable.
C3_NoSlicePanic == pc # "panic"

\* C4: start and end count scalar values: the returned value is the run of
\* chars of text from index start up to index end.
C4_OffsetsInScalars ==
    pc = "done" => result.value = SubSeq(text, result.start + 1, result.end)

\* C9: in every returned result, distance is 0 exactly when value equals
\* query.
C9_ZeroIffEqual ==
    pc = "done" => ((result.distance = 0) <=> (result.value = query))

C9_Witness ==
    /\ pc = "done"
    /\ query # <<>>
    /\ Len(text) > Len(query)
    /\ result.distance = 0
    /\ result.value = query

\* C10: for the empty query the result is the empty match at the start of
\* the search range: value empty, distance 0, start = end = 0.
C10_EmptyQueryAtStart ==
    (pc = "done" /\ query = <<>>) =>
        /\ result.value = <<>>
        /\ result.distance = 0
        /\ result.start = 0
        /\ result.end = 0

\* C11: when query has more chars than text there is no split: the top-level
\* call hands the whole text [0, len(text)) to the refiner, and the returned
\* window lies inside that range.
C11_LongQueryWholeText ==
    /\ [][(pc = "recurse" /\ end = NONE /\ Len(query) > Len(text)) =>
             (pc' = "reduce" /\ start' = 0 /\ end' = str_len(text))]_vars
    /\ []((pc = "done" /\ Len(query) > Len(text)) =>
             (0 <= result.start /\ result.start <= result.end
                /\ result.end <= str_len(text)))

\* C18: along the chain of recursive calls the bound never grows: every
\* recursive call receives a parent_distance that is at most its caller's.
C18_BoundNonIncreasing ==
    [][(pc = "recurse" /\ pc' = "recurse") =>
           parent_distance' <= parent_distance]_vars

C18_Witness ==
    /\ pc = "recurse"
    /\ end # NONE
    /\ start > 0
    /\ parent_distance < INFINITY
    /\ parent_distance > 0

\* The measure of a run: the stage of the call, then the length of the range
\* still to be searched and the bound of the current invocation, then the
\* best distance of the refiner.  Every component is a natural number.
Stage ==
    CASE pc = "recurse" -> 4
      [] pc = "reduce" -> 3
      [] pc = "improve_start" -> 2
      [] pc = "improve_end" -> 1
      [] OTHER -> 0

Measure ==
    <<Stage,
      IF pc = "recurse" THEN saturating_sub(unwrap_end, start) ELSE 0,
      IF pc = "recurse" THEN parent_distance
      ELSE IF pc \in {"improve_start", "improve_end"} THEN best_distance
      ELSE 0>>

LexLess(m, n) ==
    \/ m[1] < n[1]
    \/ m[1] = n[1] /\ m[2] < n[2]
    \/ m[1] = n[1] /\ m[2] = n[2] /\ m[3] < n[3]

\* C19: every call of recursive_fuzzy_index_of_with_defaults comes to an end:
\* each recursive call and each iteration of the two refiner loops strictly
\* lowers the measure, so the chain of calls is finite and both loops stop.
C19_Terminates == [][LexLess(Measure', Measure)]_vars

C19_Witness ==
    /\ pc = "done"
    /\ query # <<>>
    /\ str_len(text) = 2 * str_len(query) + 1
    /\ right_start(0, str_len(text), str_len(query)) = 0

\* C20: in a split step on a range [start, end) longer than 2 * len(query),
\* both windows lie inside [start, end), and every window of len(query) inside
\* the range lies wholly in the left window or wholly in the right window.
C20_SplitCoversEveryWindow ==
    (pc = "recurse" /\ unwrap_end - start > 2 * str_len(query)) =>
        LET e == unwrap_end
            q_len == str_len(query)
            le == left_end(start, e, q_len)
            rs == right_start(start, e, q_len)
        IN /\ start <= le /\ le <= e
           /\ start <= rs /\ rs <= e
           /\ \A w \in start..(e - q_len) : (w + q_len <= le) \/ (rs <= w)

C20_Witness ==
    /\ pc = "recurse"
    /\ depth > 0
    /\ unwrap_end - start > 2 * str_len(query)
    /\ LET e == unwrap_end
           q_len == str_len(query)
           mid == mid_point(start, e)
       IN /\ left_end(start, e, q_len) < e
          /\ right_start(start, e, q_len) > start
          /\ \E w \in start..(e - q_len) : w < mid /\ mid < w + q_len

\* C21: the refiner only shrinks the range it is given, and never returns a
\* distance above its starting distance: start <= start' <= end' <= end and
\* distance' <= d.
C21_RefinerOnlyShrinks ==
    pc = "done" =>
        /\ start <= result.start
        /\ result.start <= result.end
        /\ result.end <= end
        /\ result.distance <= parent_distance

\* C22: the window returned by the refiner is a local optimum: neither the
\* window without its first char nor the window without its last char is
\* strictly closer to query than the returned distance.
C22_LocalOptimum ==
    (pc = "done" /\ result.value # <<>>) =>
        /\ levenshtein_distance(Tail(result.value), query) >= result.distance
        /\ levenshtein_distance(SubSeq(result.value, 1, Len(result.value) - 1), query)
               >= result.distance

C22_Witness ==
    /\ pc = "done"
    /\ result.start > start + 1
    /\ result.end < end
    /\ Len(result.value) > 1
    /\ result.distance > 0

\* C25: every call of recursive_fuzzy_index_of below the top-level one
\* receives the distance of its own range as parent_distance, and so does the
\* refiner when such a call hands its range over.
C25_BoundIsRangeDistance ==
    (pc \in {"recurse", "reduce"} /\ depth > 0) =>
        /\ ~safe_substring_panics(text, start, end)
        /\ parent_distance = levenshtein_distance(safe_substring(text, start, end), query)

C25_Witness ==
    /\ pc = "reduce"
    /\ depth > 1
    /\ start > 0
    /\ parent_distance > 0
    /\ parent_distance = levenshtein_distance(safe_substring(text, start, end), query)

\* C26: the reported distance is the distance of the reported match:
\* distance = levenshtein_distance(value, query).
C26_DistanceOfValue ==
    pc = "done" => result.distance = levenshtein_distance(result.value, query)

C26_Witness ==
    /\ pc = "done"
    /\ depth > 0
    /\ result.distance > 0
    /\ result.start > start
    /\ result.value # <<>>
    /\ result.distance = levenshtein_distance(result.value, query)

(***************************************************************************)
(* The distance engine on its own: levenshtein_distance applied to the     *)
(* pairs of three operands.                                                *)
(***************************************************************************)
LocIdle ==
    /\ text = <<>>
    /\ query = <<>>
    /\ pc = "idle"
    /\ depth = 0
    /\ start = 0
    /\ end = NONE
    /\ parent_distance = INFINITY
    /\ best_distance = 0
    /\ best_start = 0
    /\ best_end = 0
    /\ next_distance = 0
    /\ result = NoResult

LevInit ==
    /\ a \in StrUpTo(LevAlphabet, MaxLevLen)
    /\ b \in StrUpTo(LevAlphabet, MaxLevLen)
    /\ c \in StrUpTo(LevAlphabet, MaxLevLen)
    /\ lev_pc = "ready"
    /\ lev_out = NoLevOut
    /\ LocIdle
    /\ SimIdle
    /\ DiffIdle
    /\ ExtIdle

LevenshteinDistance ==
    /\ lev_pc = "ready"
    /\ lev_out' = [ab |-> levenshtein_distance(a, b),
                   ba |-> levenshtein_distance(b, a),
                   ac |-> levenshtein_distance(a, c),
                   cb |-> levenshtein_distance(c, b)]
    /\ lev_pc' = "done"
    /\ UNCHANGED <<a, b, c>>
    /\ UNCHANGED <<locVars, simVars, diffVars>>
    /\ UNCHANGED extVars

LevNext == LevenshteinDistance

SpecLev == LevInit /\ [][LevNext]_vars

(***************************************************************************)
(* The reference edit distance: the least number of single-char edits that *)
(* lead from one sequence to the other.  An optimal script never passes    *)
(* through a sequence longer than both of its ends, so the sequences on    *)
(* the way are kept within MaxLevLen + 1 chars.                            *)
(***************************************************************************)
Substitutions(s) ==
    {[s EXCEPT ![i] = ch] : i \in 1..Len(s), ch \in LevAlphabet}
Deletions(s) ==
    {SubSeq(s, 1, i - 1) \o SubSeq(s, i + 1, Len(s)) : i \in 1..Len(s)}
Insertions(s) ==
    IF Len(s) > MaxLevLen THEN {}
    ELSE {SubSeq(s, 1, i) \o <<ch>> \o SubSeq(s, i + 1, Len(s)) :
              i \in 0..Len(s), ch \in LevAlphabet}
OneEdit(s) == Substitutions(s) \cup Deletions(s) \cup Insertions(s)

RECURSIVE EditsUntil(_, _, _)
EditsUntil(reached, target, k) ==
    IF target \in reached THEN k
    ELSE EditsUntil(reached \cup UNION {OneEdit(s) : s \in reached}, target, k + 1)

reference_distance(x, y) == EditsUntil({x}, y, 0)

\* C5: levenshtein_distance(a, b) is the least number of single-char
\* insertions, deletions and substitutions that turn a into b.
C5_LevIsEditDistance ==
    lev_pc = "done" => lev_out.ab = reference_distance(a, b)

C5_Witness ==
    /\ lev_pc = "done"
    /\ a # <<>> /\ b # <<>>
    /\ Len(a) # Len(b)
    /\ lev_out.ab = 2
    /\ reference_distance(a, b) = 2

\* C6: levenshtein_distance(a, b) = levenshtein_distance(b, a).
C6_LevSymmetric ==
    lev_pc = "done" => lev_out.ab = lev_out.ba

C6_Witness ==
    /\ lev_pc = "done"
    /\ a # <<>> /\ b # <<>>
    /\ Len(a) < Len(b)
    /\ lev_out.ab > 0
    /\ lev_out.ba = lev_out.ab

\* C7: levenshtein_distance(a, b) is at most
\* levenshtein_distance(a, c) + levenshtein_distance(c, b).
C7_LevTriangle ==
    lev_pc = "done" => lev_out.ab <= lev_out.ac + lev_out.cb

C7_Witness ==
    /\ lev_pc = "done"
    /\ a # b /\ a # c /\ c # b
    /\ a # <<>> /\ b # <<>> /\ c # <<>>
    /\ lev_out.ab = lev_out.ac + lev_out.cb

\* C8: the distance between the empty string and s, in either order, is
\* the number of scalar values of s.
C8_LevFromEmpty ==
    (lev_pc = "done" /\ a = <<>>) =>
        (lev_out.ab = chars_count(b) /\ lev_out.ba = chars_count(b))

C8_Witness ==
    /\ lev_pc = "done"
    /\ a = <<>>
    /\ str_len(b) > chars_count(b)
    /\ lev_out.ab = chars_count(b)
    /\ lev_out.ba = chars_count(b)

(***************************************************************************)
(* The similarity scorer: get_similarity_ratio applied to a and b.  The    *)
(* f64 result 1.0 - distance / max_length is kept as the exact fraction    *)
(* (max_length - distance) / max_length; the early return 1.0 is 1 / 1.    *)
(***************************************************************************)
\* the smaller of the two storage lengths
max_length_smaller(x, y) == Min(str_len(x), str_len(y))

\* line 249: cmp::max(a.len(), b.len())
max_length(x, y) == Max(str_len(x), str_len(y))

get_similarity_ratio(x, y) ==
    IF max_length(x, y) = 0 THEN [num |-> 1, den |-> 1]
    ELSE [num |-> max_length(x, y) - levenshtein_distance(x, y),
          den |-> max_length(x, y)]

SimInit ==
    /\ a \in StrUpTo(LevAlphabet, MaxLevLen)
    /\ b \in StrUpTo(LevAlphabet, MaxLevLen)
    /\ c = <<>>
    /\ lev_pc = "idle"
    /\ lev_out = NoLevOut
    /\ sim_pc = "ready"
    /\ sim_out = NoRatio
    /\ LocIdle
    /\ DiffIdle
    /\ ExtIdle

GetSimilarityRatio ==
    /\ sim_pc = "ready"
    /\ sim_out' = get_similarity_ratio(a, b)
    /\ sim_pc' = "done"
    /\ UNCHANGED <<locVars, levVars, diffVars>>
    /\ UNCHANGED extVars

SimNext == GetSimilarityRatio

SpecSim == SimInit /\ [][SimNext]_vars

\* C12: unless both operands are empty, the ratio is
\* 1 - levenshtein_distance(a, b) / max_len with max_len the larger of the
\* two lengths in scalar values; for two empty operands it is 1.
C12_RatioOverScalarLength ==
    sim_pc = "done" =>
        LET max_len == Max(chars_count(a), chars_count(b))
        IN IF max_len = 0
           THEN sim_out.num = sim_out.den
           ELSE sim_out.num * max_len =
                    (max_len - levenshtein_distance(a, b)) * sim_out.den

\* C13: the ratio lies in [0, 1], and it is 1 exactly when a and b are
\* identical.
C13_RatioRange ==
    sim_pc = "done" =>
        /\ sim_out.den > 0
        /\ 0 <= sim_out.num
        /\ sim_out.num <= sim_out.den
        /\ (sim_out.num = sim_out.den) <=> (a = b)

C13_Witness ==
    /\ sim_pc = "done"
    /\ a # b
    /\ str_len(a) > chars_count(a)
    /\ 0 < sim_out.num
    /\ sim_out.num < sim_out.den

(***************************************************************************)
(* The boundary finders: find_common_boundaries of char_analysis.rs, which *)
(* counts chars, and CharDiff::new of char_diff.rs, which counts bytes and *)
(* slices the operands with them.                                          *)
(***************************************************************************)
Reverse(s) == [i \in 1..Len(s) |-> s[Len(s) + 1 - i]]

\* Iterator::take
take(s, n) == SubSeq(s, 1, Min(n, Len(s)))

\* the pairs of equal chars counted wherever they stand (filter)
RECURSIVE common_run_filtered(_, _)
common_run_filtered(x, y) ==
    IF x = <<>> \/ y = <<>> THEN 0
    ELSE (IF Head(x) = Head(y) THEN 1 ELSE 0) + common_run_filtered(Tail(x), Tail(y))

\* x.iter().zip(y.iter()).take_while(|(ca, cb)| ca == cb).count()
RECURSIVE common_run(_, _)
common_run(x, y) ==
    IF x = <<>> \/ y = <<>> THEN 0
    ELSE IF Head(x) # Head(y) THEN 0
    ELSE 1 + common_run(Tail(x), Tail(y))

\* the suffix scan bounded by the shorter operand only
max_suffix_unreduced(x, y, prefix_len) == Min(Len(x), Len(y))

\* char_analysis.rs line 248
max_suffix(x, y, prefix_len) == saturating_sub(Min(Len(x), Len(y)), prefix_len)

find_common_boundaries(x, y) ==
    LET prefix_len == common_run(x, y)
        suffix_len == common_run(take(Reverse(x), max_suffix(x, y, prefix_len)),
                                 take(Reverse(y), max_suffix(x, y, prefix_len)))
    IN <<prefix_len, suffix_len>>

\* &s[lo..hi] panics: offsets out of order, out of range or inside a char
slice_panics(s, lo, hi) ==
    lo > hi \/ ~is_char_boundary(s, lo) \/ ~is_char_boundary(s, hi)

\* the common prefix counted in chars
find_common_prefix_in_chars(x, y) == common_run(x, y)

\* CharDiff::find_common_prefix: the byte offset behind the last char of the
\* common run, 0 when there is none
find_common_prefix(x, y) ==
    LET k == common_run(x, y)
    IN IF k = 0 THEN 0
       ELSE str_len(SubSeq(x, 1, k - 1)) + len_utf8(x[k])

\* the whole operand taken for the suffix scan
remainder_whole(s, prefix_len) == s

\* char_diff.rs lines 58-59: &s[prefix_len..]
remainder(s, prefix_len) == str_slice(s, prefix_len, str_len(s))

find_common_suffix_panics(x, y, prefix_len) ==
    \/ slice_panics(x, prefix_len, str_len(x))
    \/ slice_panics(y, prefix_len, str_len(y))

\* CharDiff::find_common_suffix: the byte length of the common suffix of the
\* two remainders
find_common_suffix(x, y, prefix_len) ==
    LET a_suffix == remainder(x, prefix_len)
        b_suffix == remainder(y, prefix_len)
        matching_chars == common_run(Reverse(a_suffix), Reverse(b_suffix))
        first_non_matching_idx == Len(a_suffix) - matching_chars
        byte_idx == str_len(SubSeq(a_suffix, 1, first_non_matching_idx))
    IN IF matching_chars = 0 THEN 0
       ELSE IF matching_chars = Len(a_suffix) THEN str_len(a_suffix)
       ELSE str_len(a_suffix) - byte_idx

DiffInit ==
    /\ expected \in StrUpTo(Alphabet, MaxDiffLen)
    /\ actual \in StrUpTo(Alphabet, MaxDiffLen)
    /\ fcb_pc = "ready"
    /\ boundaries = NoBoundaries
    /\ cd_pc = "ready"
    /\ char_diff = NoCharDiff
    /\ LocIdle
    /\ LevIdle
    /\ SimIdle
    /\ ExtIdle

FindCommonBoundaries ==
    /\ fcb_pc = "ready"
    /\ boundaries' = find_common_boundaries(expected, actual)
    /\ fcb_pc' = "done"
    /\ UNCHANGED <<expected, actual, cd_pc, char_diff>>
    /\ UNCHANGED <<locVars, levVars, simVars>>
    /\ UNCHANGED extVars

\* CharDiff::new, lines 26-45
CharDiffNew ==
    /\ cd_pc = "ready"
    /\ LET prefix_len == find_common_prefix(expected, actual)
       IN IF find_common_suffix_panics(expected, actual, prefix_len)
          THEN cd_pc' = "panic" /\ UNCHANGED char_diff
          ELSE LET suffix_len == find_common_suffix(expected, actual, prefix_len)
                   exp_cut == str_len(expected) - suffix_len
                   act_cut == str_len(actual) - suffix_len
               IN IF \/ slice_panics(expected, 0, prefix_len)
                     \/ slice_panics(expected, exp_cut, str_len(expected))
                     \/ slice_panics(expected, prefix_len, exp_cut)
                     \/ slice_panics(actual, prefix_len, act_cut)
                  THEN cd_pc' = "panic" /\ UNCHANGED char_diff
                  ELSE /\ cd_pc' = "done"
                       /\ char_diff' =
                            [common_prefix |-> str_slice(expected, 0, prefix_len),
                             expected_part |-> str_slice(expected, prefix_len, exp_cut),
                             actual_part |-> str_slice(actual, prefix_len, act_cut),
                             common_suffix |-> str_slice(expected, exp_cut, str_len(expected))]
    /\ UNCHANGED <<expected, actual, fcb_pc, boundaries>>
    /\ UNCHANGED <<locVars, levVars, simVars>>
    /\ UNCHANGED extVars

DiffNext == FindCommonBoundaries \/ CharDiffNew

SpecDiff == DiffInit /\ [][DiffNext]_vars

\* C14: the boundaries (prefix_len, suffix_len) never overlap:
\* prefix_len + suffix_len <= min(len(a), len(b)) in scalar units.
C14_BoundariesDisjoint ==
    fcb_pc = "done" =>
        boundaries[1] + boundaries[2] <=
            Min(chars_count(expected), chars_count(actual))

C14_Witness ==
    /\ fcb_pc = "done"
    /\ boundaries[1] > 0
    /\ boundaries[1] + boundaries[2] = chars_count(expected)
    /\ chars_count(expected) < chars_count(actual)
    /\ expected[Len(expected)] = actual[Len(actual)]

\* the longest common prefix and suffix of two char sequences, by definition
LongestCommonPrefix(x, y) ==
    CHOOSE k \in 0..Min(Len(x), Len(y)) :
        /\ SubSeq(x, 1, k) = SubSeq(y, 1, k)
        /\ \A j \in (k + 1)..Min(Len(x), Len(y)) : SubSeq(x, 1, j) # SubSeq(y, 1, j)
LongestCommonSuffix(x, y) ==
    CHOOSE k \in 0..Min(Len(x), Len(y)) :
        /\ SubSeq(x, Len(x) - k + 1, Len(x)) = SubSeq(y, Len(y) - k + 1, Len(y))
        /\ \A j \in (k + 1)..Min(Len(x), Len(y)) :
               SubSeq(x, Len(x) - j + 1, Len(x)) # SubSeq(y, Len(y) - j + 1, Len(y))

\* C15: prefix_len is the length of the longest common prefix, and suffix_len
\* the length of the longest common suffix of what is left of each operand
\* behind its first prefix_len chars.
C15_BoundariesAreLongest ==
    fcb_pc = "done" =>
        /\ boundaries[1] = LongestCommonPrefix(expected, actual)
        /\ boundaries[2] =
               LongestCommonSuffix(SubSeq(expected, boundaries[1] + 1, Len(expected)),
                                   SubSeq(actual, boundaries[1] + 1, Len(actual)))

C15_Witness ==
    /\ fcb_pc = "done"
    /\ boundaries[1] > 0
    /\ boundaries[2] > 0
    /\ boundaries[1] + boundaries[2] < chars_count(expected)
    /\ boundaries[2] < LongestCommonSuffix(expected, actual)

\* C16: a string against itself has the boundaries (scalar_len(a), 0), and
\* CharDiff::new(a, a) has common_prefix = a and the three other parts empty.
C16_IdenticalOperands ==
    expected = actual =>
        /\ fcb_pc = "done" => boundaries = <<chars_count(expected), 0>>
        /\ cd_pc # "panic"
        /\ cd_pc = "done" =>
               char_diff = [common_prefix |-> expected, expected_part |-> <<>>,
                            actual_part |-> <<>>, common_suffix |-> <<>>]

C16_Witness ==
    /\ expected = actual
    /\ str_len(expected) > chars_count(expected)
    /\ chars_count(expected) > 1
    /\ fcb_pc = "done"
    /\ cd_pc = "done"
    /\ boundaries = <<chars_count(expected), 0>>
    /\ char_diff.common_prefix = expected

Contains(s, ch) == \E i \in 1..Len(s) : s[i] = ch

\* C17: CharDiff::new cuts both operands at char boundaries only, and the
\* parts re-assemble: common_prefix + expected_part + common_suffix is
\* expected, and common_prefix + actual_part + common_suffix is actual.
C17_CharDiffLossless ==
    /\ cd_pc # "panic"
    /\ cd_pc = "done" =>
           /\ char_diff.common_prefix \o char_diff.expected_part
                  \o char_diff.common_suffix = expected
           /\ char_diff.common_prefix \o char_diff.actual_part
                  \o char_diff.common_suffix = actual

C17_Witness ==
    /\ cd_pc = "done"
    /\ Contains(char_diff.common_prefix, 233)
    /\ Contains(char_diff.expected_part, 233)
    /\ Contains(char_diff.common_suffix, 233)
    /\ char_diff.actual_part # <<>>

\* C30: the two boundary finders agree: the numbers of chars of common_prefix
\* and common_suffix of CharDiff::new(expected, actual) are the pair
\* (prefix_len, suffix_len) of find_common_boundaries(expected, actual).
C30_BoundaryFindersAgree ==
    (fcb_pc = "done" /\ cd_pc = "done") =>
        boundaries = <<chars_count(char_diff.common_prefix),
                       chars_count(char_diff.common_suffix)>>

C30_Witness ==
    /\ fcb_pc = "done"
    /\ cd_pc = "done"
    /\ expected # actual
    /\ boundaries[1] > 0
    /\ boundaries[2] > 0
    /\ boundaries[2] < LongestCommonSuffix(expected, actual)
    /\ str_len(char_diff.common_suffix) > chars_count(char_diff.common_suffix)
    /\ boundaries = <<chars_count(char_diff.common_prefix),
                      chars_count(char_diff.common_suffix)>>

(***************************************************************************)
(* Line endings: normalize_line_endings and analyze_line_endings of        *)
(* line_endings.rs.  '\r' is 13, '\n' is 10.                               *)
(***************************************************************************)
MaxLineLen == 5

CR == 13
LF == 10
LineAlphabet == {CR, LF, 97}
LineEndingStyle == {"Lf", "Crlf", "Cr"}

starts_with(s, pat) == Len(pat) <= Len(s) /\ SubSeq(s, 1, Len(pat)) = pat

\* str::replace: the matches of pat, taken from the left without overlap
RECURSIVE replace(_, _, _)
replace(s, pat, to) ==
    IF s = <<>> THEN <<>>
    ELSE IF starts_with(s, pat)
    THEN to \o replace(SubSeq(s, Len(pat) + 1, Len(s)), pat, to)
    ELSE <<Head(s)>> \o replace(Tail(s), pat, to)

\* step 1 with the second replace left out
to_lf_crlf_only(s) == replace(s, <<CR, LF>>, <<LF>>)

\* lines 80-82: CRLF to LF first, then CR to LF
to_lf(s) == replace(replace(s, <<CR, LF>>, <<LF>>), <<CR>>, <<LF>>)

\* LineEndingStyle::as_str
as_str(style) ==
    CASE style = "Lf" -> <<LF>>
      [] style = "Crlf" -> <<CR, LF>>
      [] style = "Cr" -> <<CR>>

normalize_line_endings(s, style) ==
    IF style = "Lf" THEN to_lf(s)
    ELSE replace(to_lf(s), <<LF>>, as_str(style))

\* the scan of lines 135-155, from the bytes still to be read
RECURSIVE scan_line_endings(_, _)
scan_line_endings(bytes, counts) ==
    IF bytes = <<>> THEN counts
    ELSE IF Head(bytes) = CR
    THEN IF Len(bytes) > 1 /\ bytes[2] = LF
         THEN scan_line_endings(SubSeq(bytes, 3, Len(bytes)),
                                [counts EXCEPT !.crlf_count = @ + 1])
         ELSE scan_line_endings(Tail(bytes), [counts EXCEPT !.cr_count = @ + 1])
    ELSE IF Head(bytes) = LF
    THEN scan_line_endings(Tail(bytes), [counts EXCEPT !.lf_count = @ + 1])
    ELSE scan_line_endings(Tail(bytes), counts)

analyze_line_endings(s) ==
    LET n == scan_line_endings(s, [crlf_count |-> 0, lf_count |-> 0, cr_count |-> 0])
        used_styles == (IF n.crlf_count > 0 THEN 1 ELSE 0)
                         + (IF n.lf_count > 0 THEN 1 ELSE 0)
                         + (IF n.cr_count > 0 THEN 1 ELSE 0)
    IN [style |-> IF n.crlf_count >= n.lf_count /\ n.crlf_count >= n.cr_count
                  THEN "Crlf"
                  ELSE IF n.lf_count >= n.cr_count THEN "Lf" ELSE "Cr",
        total_count |-> n.crlf_count + n.lf_count + n.cr_count,
        has_mixed |-> used_styles > 1,
        crlf_count |-> n.crlf_count,
        lf_count |-> n.lf_count,
        cr_count |-> n.cr_count]

CoreIdle == LocIdle /\ LevIdle /\ SimIdle /\ DiffIdle

LeInit ==
    /\ le_text \in StrUpTo(LineAlphabet, MaxLineLen)
    /\ le_target \in LineEndingStyle
    /\ le_pc = "ready"
    /\ normalized = <<>>
    /\ CoreIdle
    /\ CacheIdle
    /\ LogIdle
    /\ UsageIdle

NormalizeLineEndings ==
    /\ le_pc = "ready"
    /\ normalized' = normalize_line_endings(le_text, le_target)
    /\ le_pc' = "done"
    /\ UNCHANGED <<le_text, le_target>>
    /\ UNCHANGED coreVars
    /\ UNCHANGED <<cacheVars, logVars, usageVars>>

LeNext == NormalizeLineEndings

SpecLe == LeInit /\ [][LeNext]_vars

\* the chars of s that are neither '\r' nor '\n', in their order
RECURSIVE other_chars(_)
other_chars(s) ==
    IF s = <<>> THEN <<>>
    ELSE IF Head(s) \in {CR, LF} THEN other_chars(Tail(s))
    ELSE <<Head(s)>> \o other_chars(Tail(s))

\* C24: normalize_line_endings(text, target) holds line endings of the target
\* style only: no '\r' for Lf, no '\n' for Cr, and for Crlf every '\r' is
\* followed by '\n' and every '\n' preceded by '\r'; the other chars are
\* unchanged and in the same order.
C24_OnlyTargetEndings ==
    le_pc = "done" =>
        LET out == normalized
            an == analyze_line_endings(out)
        IN /\ le_target = "Lf" =>
                  (~Contains(out, CR) /\ an.crlf_count = 0 /\ an.cr_count = 0)
           /\ le_target = "Cr" =>
                  (~Contains(out, LF) /\ an.crlf_count = 0 /\ an.lf_count = 0)
           /\ le_target = "Crlf" =>
                  /\ \A i \in 1..Len(out) :
                         /\ out[i] = CR => (i < Len(out) /\ out[i + 1] = LF)
                         /\ out[i] = LF => (i > 1 /\ out[i - 1] = CR)
                  /\ an.lf_count = 0 /\ an.cr_count = 0
           /\ ~an.has_mixed
           /\ other_chars(out) = other_chars(le_text)

C24_Witness ==
    /\ le_pc = "done"
    /\ analyze_line_endings(le_text).has_mixed
    /\ analyze_line_endings(le_text).crlf_count > 0
    /\ analyze_line_endings(le_text).cr_count > 0
    /\ other_chars(le_text) # <<>>
    /\ le_target = "Crlf"
    /\ analyze_line_endings(normalized).crlf_count = 3

(***************************************************************************)
(* The analysis cache of char_analysis.rs: CharCodeData::analyze looks its *)
(* result up in ANALYSIS_CACHE, an LRU cache keyed by a String, and        *)
(* computes and stores it on a miss.  The entries are kept from the most   *)
(* to the least recently used.  Of CharCodeData the model keeps            *)
(* unique_count, diff_length and distribution; the Vecs of distribution    *)
(* are filled in the iteration order of a HashMap and are kept as sets.    *)
(***************************************************************************)
MaxKeyLen == 1
MaxCalls == 3
CACHE_CAPACITY == 100

\* '|'
BAR == 124
KeyAlphabet == {97, BAR}

\* line 128: format!("{expected}|{actual}")
cache_key(e, x) == e \o <<BAR>> \o x

Occurrences(s, code) == Cardinality({i \in 1..Len(s) : s[i] = code})
Codes(s) == {s[i] : i \in 1..Len(s)}

\* count_chars, as the set of (code, count) pairs
count_chars(s) == {<<code, Occurrences(s, code)>> : code \in Codes(s)}

compare_distribution(e, x) ==
    [only_in_expected |-> {<<code, Occurrences(e, code)>> : code \in Codes(e) \ Codes(x)},
     only_in_actual |-> {<<code, Occurrences(x, code)>> : code \in Codes(x) \ Codes(e)},
     in_both |-> {<<code, Occurrences(e, code), Occurrences(x, code)>> :
                      code \in Codes(e) \cap Codes(x)}]

analyze_uncached(e, x) ==
    LET bounds == find_common_boundaries(e, x)
        prefix_len == bounds[1]
        suffix_len == bounds[2]
        expected_diff == SubSeq(e, prefix_len + 1, saturating_sub(Len(e), suffix_len))
        actual_diff == SubSeq(x, prefix_len + 1, saturating_sub(Len(x), suffix_len))
        full_diff == expected_diff \o actual_diff
    IN [unique_count |-> Cardinality(count_chars(full_diff)),
        diff_length |-> chars_count(full_diff),
        distribution |-> compare_distribution(expected_diff, actual_diff)]

\* LruCache::get: the position of the entry of key k, 0 when there is none
cache_find(k) ==
    IF \E i \in 1..Len(cache) : cache[i].key = k
    THEN CHOOSE i \in 1..Len(cache) : cache[i].key = k
    ELSE 0

\* LruCache::get promotes the entry it returns
promote(entries, i) ==
    <<entries[i]>> \o SubSeq(entries, 1, i - 1) \o SubSeq(entries, i + 1, Len(entries))

\* LruCache::put of a key that is not held: the least recently used entry
\* leaves a full cache
put(entries, k, v) ==
    LET pushed == <<[key |-> k, value |-> v]>> \o entries
    IN IF Len(pushed) > CACHE_CAPACITY THEN SubSeq(pushed, 1, CACHE_CAPACITY) ELSE pushed

CacheInit ==
    /\ cache = <<>>
    /\ an_expected = <<>>
    /\ an_actual = <<>>
    /\ an_pc = "ready"
    /\ an_result = NoAnalysis
    /\ calls = 0
    /\ CoreIdle
    /\ LeIdle
    /\ LogIdle
    /\ UsageIdle

\* CharCodeData::analyze(e, x), lines 126-146
Analyze(e, x) ==
    /\ an_pc \in {"ready", "done"}
    /\ calls < MaxCalls
    /\ calls' = calls + 1
    /\ an_expected' = e
    /\ an_actual' = x
    /\ an_pc' = "done"
    /\ LET k == cache_key(e, x)
           hit == cache_find(k)
       IN IF hit # 0
          THEN /\ an_result' = cache[hit].value
               /\ cache' = promote(cache, hit)
          ELSE /\ an_result' = analyze_uncached(e, x)
               /\ cache' = put(cache, k, analyze_uncached(e, x))
    /\ UNCHANGED coreVars
    /\ UNCHANGED <<leVars, logVars, usageVars>>

CacheNext ==
    \E e \in StrUpTo(KeyAlphabet, MaxKeyLen), x \in StrUpTo(KeyAlphabet, MaxKeyLen) :
        Analyze(e, x)

SpecCache == CacheInit /\ [][CacheNext]_vars

\* C27: the cache is transparent: after any sequence of analyze calls,
\* analyze(expected, actual) returns what an uncached analysis of the same
\* pair produces, also for operands that hold '|'.
C27_CacheTransparent ==
    an_pc = "done" => an_result = analyze_uncached(an_expected, an_actual)

(***************************************************************************)
(* The edit log of edit_log.rs: EditBlockLogger::log sends an entry on an  *)
(* unbounded channel; the background processor loops over a select! with   *)
(* three branches: Some(entry) = rx.recv(), _ = flush_interval.tick(), and *)
(* else.  select! runs a branch whose future completes with a value that   *)
(* matches its pattern; a value that does not match disables the branch    *)
(* for this call of select!, and the else handler runs once every branch   *)
(* is disabled.  Each turn of the loop enters select! anew, with every     *)
(* branch enabled.  The k-th entry passed to log is the number k.          *)
(***************************************************************************)
MaxEntries == 3

\* the header line written to a new file by init_log_file
HEADER == <<"header">>

\* EditBlockLogEntry::to_tsv followed by the newline: one line of the file
to_tsv(entry) == <<"row", entry>>

RECURSIVE lines_of(_)
lines_of(entries) ==
    IF entries = <<>> THEN <<>>
    ELSE <<to_tsv(Head(entries))>> \o lines_of(Tail(entries))

\* the pattern _ of the tick branch matches every value: the branch is
\* never disabled
tick_disabled == FALSE

\* init_log_file succeeded: the header goes to a file that did not exist
opened(file) == IF file = <<>> THEN <<HEADER>> ELSE file

\* what the edit log leaves alone
logOthers == <<coreVars, leVars, cacheVars, usageVars>>

\* EditBlockLogger::new; the log file of an earlier run may exist
LogInit ==
    /\ sender_alive = TRUE
    /\ channel = <<>>
    /\ pending_entries = <<>>
    /\ writer = FALSE
    /\ log_file \in {<<>>, <<HEADER>>}
    /\ log_pc = "running"
    /\ recv_disabled = FALSE
    /\ logged = 0
    /\ CoreIdle
    /\ LeIdle
    /\ CacheIdle
    /\ UsageIdle

\* EditBlockLogger::log, lines 115-119
Log ==
    /\ sender_alive
    /\ logged < MaxEntries
    /\ logged' = logged + 1
    /\ channel' = Append(channel, logged + 1)
    /\ UNCHANGED <<sender_alive, pending_entries, writer, log_file, log_pc, recv_disabled>>
    /\ UNCHANGED logOthers

\* the last EditBlockLogger is dropped: the channel is closed
DropSender ==
    /\ sender_alive
    /\ sender_alive' = FALSE
    /\ UNCHANGED <<channel, pending_entries, writer, log_file, log_pc, recv_disabled, logged>>
    /\ UNCHANGED logOthers

\* lines 160-162: rx.recv() gives Some(entry)
RecvEntry ==
    /\ log_pc = "running"
    /\ ~recv_disabled
    /\ channel # <<>>
    /\ pending_entries' = Append(pending_entries, Head(channel))
    /\ channel' = Tail(channel)
    /\ UNCHANGED <<sender_alive, writer, log_file, log_pc, recv_disabled, logged>>
    /\ UNCHANGED logOthers

\* lines 165-195: flush_interval.tick() completes; init_ok is the outcome of
\* init_log_file when it is called
FlushTick(init_ok) ==
    /\ log_pc = "running"
    /\ ~tick_disabled
    /\ recv_disabled' = FALSE
    /\ IF pending_entries = <<>>
       THEN UNCHANGED <<pending_entries, writer, log_file>>
       ELSE IF ~writer /\ ~init_ok
       THEN /\ pending_entries' = <<>>
            /\ UNCHANGED <<writer, log_file>>
       ELSE /\ writer' = TRUE
            /\ log_file' = (IF writer THEN log_file ELSE opened(log_file))
                              \o lines_of(pending_entries)
            /\ pending_entries' = <<>>
    /\ UNCHANGED <<sender_alive, channel, log_pc, logged>>
    /\ UNCHANGED logOthers

\* lines 198-211, the else handler: the final flush and the break
FinalFlush(init_ok) ==
    /\ log_pc' = "exited"
    /\ LET w == writer \/ (pending_entries # <<>> /\ init_ok)
       IN /\ writer' = w
          /\ IF w
             THEN /\ log_file' = (IF writer \/ pending_entries = <<>>
                                  THEN log_file ELSE opened(log_file))
                                     \o lines_of(pending_entries)
                  /\ pending_entries' = <<>>
             ELSE UNCHANGED <<log_file, pending_entries>>

\* rx.recv() gives None on the closed and drained channel: the pattern
\* Some(entry) does not match and the branch is disabled; the else handler
\* runs when no branch is left enabled
RecvNone(init_ok) ==
    /\ log_pc = "running"
    /\ ~recv_disabled
    /\ ~sender_alive
    /\ channel = <<>>
    /\ recv_disabled' = TRUE
    /\ IF tick_disabled
       THEN FinalFlush(init_ok)
       ELSE UNCHANGED <<pending_entries, writer, log_file, log_pc>>
    /\ UNCHANGED <<sender_alive, channel, logged>>
    /\ UNCHANGED logOthers

LogProcessor ==
    \/ RecvEntry
    \/ \E init_ok \in BOOLEAN : FlushTick(init_ok)
    \/ \E init_ok \in BOOLEAN : RecvNone(init_ok)

LogNext ==
    \/ Log
    \/ DropSender
    \/ LogProcessor

SpecLog == LogInit /\ [][LogNext]_vars

\* the runtime keeps polling the spawned task, and the interval keeps ticking
SpecLogLive == SpecLog /\ WF_vars(LogProcessor)

\* C23: once every sender has been dropped, the processor eventually takes
\* its shutdown branch (the final flush) and leaves its loop.
C23_ShutdownOnClose == (~sender_alive) ~> (log_pc = "exited")

\* the entries of the file, without the header
Rows(file) == IF file # <<>> /\ Head(file) = HEADER THEN Tail(file) ELSE file

\* C29: every entry passed to log is written to the file exactly once and in
\* the order of the calls: at any time the entries logged so far are the rows
\* of the file, followed by the buffered entries, followed by the entries
\* still in the channel; none is dropped when init_log_file fails.
C29_NoEntryLost ==
    Rows(log_file) \o lines_of(pending_entries) \o lines_of(channel)
        = lines_of([k \in 1..logged |-> k])

(***************************************************************************)
(* The usage tracker of usage_tracker.rs: track_success and track_failure  *)
(* send a StatsUpdate on an unbounded channel; the background processor    *)
(* loads the stats file, then loops over a select! of the same three       *)
(* branches as the edit log.  first_used and last_used are clock values    *)
(* and are left out; is_new_session compares the clock with last_used, so  *)
(* its outcome is an input of the step.                                    *)
(***************************************************************************)
MaxUpdates == 3

\* tool names: one of the terminal category and one of no category
Tools == {"execute_command", "unlisted_tool"}
StatsUpdate == [kind : {"Success", "Failure"}, tool_name : Tools]

\* get_category, lines 118-148; the arms that name a constant of
\* kodegen_mcp_schema are kept under the name of the constant
get_category(tool_name) ==
    CASE tool_name \in {"FS_READ_FILE", "FS_READ_MULTIPLE_FILES", "FS_WRITE_FILE",
                        "FS_CREATE_DIRECTORY", "FS_LIST_DIRECTORY", "FS_MOVE_FILE",
                        "FS_DELETE_FILE", "FS_DELETE_DIRECTORY", "FS_GET_FILE_INFO"}
             -> "filesystem"
      [] tool_name \in {"execute_command", "read_output", "send_input",
                        "force_terminate", "list_sessions"} -> "terminal"
      [] tool_name = "FS_EDIT_BLOCK" -> "edit"
      [] tool_name = "FS_SEARCH" -> "search"
      [] tool_name \in {"INSPECT_USAGE_STATS", "get_config", "set_config_value",
                        "prompt_get", "INSPECT_TOOL_CALLS"} -> "config"
      [] tool_name \in {"list_processes", "kill_process"} -> "process"
      [] OTHER -> "none"

\* *tool_counts.entry(name).or_insert(0) += 1
bump(counts, name) ==
    [t \in DOMAIN counts \cup {name} |->
        IF t = name THEN (IF name \in DOMAIN counts THEN counts[name] ELSE 0) + 1
        ELSE counts[t]]

\* the overall counters raised for every update but the kind's own one
count_kind_twice(st, update) ==
    [st EXCEPT !.total_tool_calls = @ + 1,
               !.successful_calls = @ + 1,
               !.failed_calls = IF update.kind = "Failure" THEN @ + 1 ELSE @]

\* lines 202-217: the overall counters
count_kind(st, update) ==
    [st EXCEPT !.total_tool_calls = @ + 1,
               !.successful_calls = IF update.kind = "Success" THEN @ + 1 ELSE @,
               !.failed_calls = IF update.kind = "Failure" THEN @ + 1 ELSE @]

\* lines 222-233: the category counter
count_category(st, category) ==
    CASE category = "filesystem" -> [st EXCEPT !.filesystem_operations = @ + 1]
      [] category = "terminal" -> [st EXCEPT !.terminal_operations = @ + 1]
      [] category = "edit" -> [st EXCEPT !.edit_operations = @ + 1]
      [] category = "search" -> [st EXCEPT !.search_operations = @ + 1]
      [] category = "config" -> [st EXCEPT !.config_operations = @ + 1]
      [] category = "process" -> [st EXCEPT !.process_operations = @ + 1]
      [] OTHER -> st

\* lines 192-234: one update applied to the in-memory stats
apply_update(st, update, new_session) ==
    LET sessions == [st EXCEPT !.total_sessions = IF new_session THEN @ + 1 ELSE @]
        counted == count_kind(sessions, update)
        tools == [counted EXCEPT !.tool_counts = bump(@, update.tool_name)]
    IN count_category(tools, get_category(update.tool_name))

\* a stats file left by an earlier run: one successful execute_command
SavedStats ==
    [DefaultStats EXCEPT !.terminal_operations = 1, !.total_tool_calls = 1,
                         !.successful_calls = 1,
                         !.tool_counts = [t \in {"execute_command"} |-> 1]]

\* load_or_default, lines 103-108
load_or_default(file) == IF file = NoFile THEN DefaultStats ELSE file

\* what the usage tracker leaves alone
usageOthers == <<coreVars, leVars, cacheVars, logVars>>

\* UsageTracker::new, with the background task not yet run
UsageInit ==
    /\ tracker_alive = TRUE
    /\ update_channel = <<>>
    /\ stats = DefaultStats
    /\ has_pending_writes = FALSE
    /\ stats_file \in {NoFile, SavedStats}
    /\ usage_pc = "loading"
    /\ update_recv_disabled = FALSE
    /\ sent = <<>>
    /\ loaded = DefaultStats
    /\ sent_at_load = 0
    /\ CoreIdle
    /\ LeIdle
    /\ CacheIdle
    /\ LogIdle

\* track_success and track_failure, lines 150-162
Track(update) ==
    /\ tracker_alive
    /\ Len(sent) < MaxUpdates
    /\ sent' = Append(sent, update)
    /\ update_channel' = Append(update_channel, update)
    /\ UNCHANGED <<tracker_alive, stats, has_pending_writes, stats_file, usage_pc,
                   update_recv_disabled, loaded, sent_at_load>>
    /\ UNCHANGED usageOthers

\* the last UsageTracker is dropped: the channel is closed
DropTracker ==
    /\ tracker_alive
    /\ tracker_alive' = FALSE
    /\ UNCHANGED <<update_channel, stats, has_pending_writes, stats_file, usage_pc,
                   update_recv_disabled, sent, loaded, sent_at_load>>
    /\ UNCHANGED usageOthers

\* lines 172-181: the task starts and loads the stats
LoadStats ==
    /\ usage_pc = "loading"
    /\ stats' = load_or_default(stats_file)
    /\ loaded' = load_or_default(stats_file)
    /\ sent_at_load' = Len(sent)
    /\ usage_pc' = "running"
    /\ UNCHANGED <<tracker_alive, update_channel, has_pending_writes, stats_file,
                   update_recv_disabled, sent>>
    /\ UNCHANGED usageOthers

\* lines 190-237: update_receiver.recv() gives Some(update)
RecvUpdate(new_session) ==
    /\ usage_pc = "running"
    /\ ~update_recv_disabled
    /\ update_channel # <<>>
    /\ stats' = apply_update(stats, Head(update_channel), new_session)
    /\ update_channel' = Tail(update_channel)
    /\ has_pending_writes' = TRUE
    /\ UNCHANGED <<tracker_alive, stats_file, usage_pc, update_recv_disabled, sent,
                   loaded, sent_at_load>>
    /\ UNCHANGED usageOthers

\* lines 240-261: save_interval.tick() completes; write_ok is the outcome of
\* tokio::fs::write
SaveTick(write_ok) ==
    /\ usage_pc = "running"
    /\ ~tick_disabled
    /\ update_recv_disabled' = FALSE
    /\ IF has_pending_writes
       THEN /\ stats_file' = IF write_ok THEN stats ELSE stats_file
            /\ has_pending_writes' = FALSE
       ELSE UNCHANGED <<stats_file, has_pending_writes>>
    /\ UNCHANGED <<tracker_alive, update_channel, stats, usage_pc, sent, loaded,
                   sent_at_load>>
    /\ UNCHANGED usageOthers

\* lines 264-274, the else handler: the final save and the break
FinalSave(write_ok) ==
    /\ usage_pc' = "exited"
    /\ stats_file' = IF has_pending_writes /\ write_ok THEN stats ELSE stats_file
    /\ UNCHANGED has_pending_writes

\* update_receiver.recv() gives None on the closed and drained channel: the
\* branch is disabled; the else handler runs when no branch is left enabled
RecvNoUpdate(write_ok) ==
    /\ usage_pc = "running"
    /\ ~update_recv_disabled
    /\ ~tracker_alive
    /\ update_channel = <<>>
    /\ update_recv_disabled' = TRUE
    /\ IF tick_disabled
       THEN FinalSave(write_ok)
       ELSE UNCHANGED <<usage_pc, stats_file, has_pending_writes>>
    /\ UNCHANGED <<tracker_alive, update_channel, stats, sent, loaded, sent_at_load>>
    /\ UNCHANGED usageOthers

UsageProcessor ==
    \/ LoadStats
    \/ \E new_session \in BOOLEAN : RecvUpdate(new_session)
    \/ \E write_ok \in BOOLEAN : SaveTick(write_ok)
    \/ \E write_ok \in BOOLEAN : RecvNoUpdate(write_ok)

UsageNext ==
    \/ \E update \in StatsUpdate : Track(update)
    \/ DropTracker
    \/ UsageProcessor

SpecUsage == UsageInit /\ [][UsageNext]_vars

RECURSIVE SumCounts(_)
SumCounts(counts) ==
    IF DOMAIN counts = {} THEN 0
    ELSE LET t == CHOOSE x \in DOMAIN counts : TRUE
         IN counts[t] + SumCounts([x \in DOMAIN counts \ {t} |-> counts[x]])

CategorySum(st) ==
    st.filesystem_operations + st.terminal_operations + st.edit_operations
        + st.search_operations + st.config_operations + st.process_operations

\* the updates the processor has taken from the channel
Applied == SubSeq(sent, 1, Len(sent) - Len(update_channel))

Tally(updates, kind) == Cardinality({i \in 1..Len(updates) : updates[i].kind = kind})
TallyTool(updates, name) ==
    Cardinality({i \in 1..Len(updates) : updates[i].tool_name = name})

\* C28: from fresh stats, after any sequence of track_success and
\* track_failure events, total_tool_calls = successful_calls + failed_calls =
\* the sum of tool_counts, the six category counters sum to at most
\* total_tool_calls, and every event is applied exactly once, those sent
\* before the stats were loaded included.
C28_CountersConsistent ==
    /\ usage_pc = "loading" => (stats = DefaultStats /\ update_channel = sent)
    /\ (usage_pc \in {"running", "exited"} /\ loaded = DefaultStats) =>
           /\ stats.total_tool_calls = stats.successful_calls + stats.failed_calls
           /\ stats.total_tool_calls = SumCounts(stats.tool_counts)
           /\ CategorySum(stats) <= stats.total_tool_calls
           /\ stats.total_tool_calls = Len(Applied)
           /\ stats.successful_calls = Tally(Applied, "Success")
           /\ stats.failed_calls = Tally(Applied, "Failure")
           /\ \A name \in Tools :
                  TallyTool(Applied, name) =
                      IF name \in DOMAIN stats.tool_counts
                      THEN stats.tool_counts[name] ELSE 0

C28_Witness ==
    /\ usage_pc = "running"
    /\ loaded = DefaultStats
    /\ sent_at_load = 2
    /\ Len(sent) = 3
    /\ update_channel = <<>>
    /\ stats.total_tool_calls = 3
    /\ stats.successful_calls = 2
    /\ stats.failed_calls = 1
    /\ stats.terminal_operations = 1
    /\ DOMAIN stats.tool_counts = Tools

====
